---------------------------- MODULE Spec2Model ----------------------------
(***************************************************************************)
(* Model of random_gen.py: the RandomGenerator engine (generate_number,    *)
(* generate_from_list, generate_custom) and the wheel of fortune kept by   *)
(* the GUI class (update_wheel_items, spin_wheel, on_wheel_click,          *)
(* animate_wheel, draw_wheel).                                             *)
(*                                                                         *)
(* Python strings are sequences of one-character strings.  Python floats   *)
(* are fixed-point integers: an angle or a speed x is kept as x * Scale,   *)
(* and a product with 0.97 is truncated to that resolution; Scale >= 5     *)
(* keeps a speed above the 0.2 threshold positive after friction, as the   *)
(* floats do.  The index resolution is also given over exact rationals     *)
(* num/den (selected_index).  A result of the random module is a           *)
(* nondeterministic choice among the values the call can return.           *)
(***************************************************************************)
EXTENDS Integers, Sequences, FiniteSets, TLC

VARIABLES
    wheel_items,            \* GUI.wheel_items: the labels on the wheel
    wheel_angle,            \* GUI.wheel_angle, in 1/Scale degrees
    wheel_spinning,         \* GUI.wheel_spinning
    wheel_speed,            \* GUI.wheel_speed, in 1/Scale degrees per tick
    selected_item,          \* GUI.selected_item (None: no winner recorded)
    center_button_coords,   \* GUI.center_button_coords (None until drawn)
    after_animate,          \* animate_wheel callbacks pending in root.after
    event,                  \* the handler that ran last, and what it did
    spins,                  \* number of spins accepted so far
    call,                   \* the engine call in progress: its arguments
    ret,                    \* its result so far
    pc                      \* its position

wheel_vars == <<wheel_items, wheel_angle, wheel_spinning, wheel_speed,
                selected_item, center_button_coords, after_animate, event,
                spins>>
engine_vars == <<call, ret, pc>>
vars == <<wheel_items, wheel_angle, wheel_spinning, wheel_speed,
          selected_item, center_button_coords, after_animate, event, spins,
          call, ret, pc>>

None == "None"

---------------------------------------------------------------------------
(* Bounds of the model.                                                    *)

NumRange == 1        \* generate_number: min_val, max_val in -NumRange..NumRange
MaxCount == 3        \* largest count requested of the engine
MaxListLen == 3      \* generate_from_list: longest item list
MaxTemplateLen == 5  \* generate_custom: longest template
Scale == 5           \* wheel angles and speeds are kept in 1/Scale degrees
MaxSpins == 2        \* spins accepted in one behaviour of the wheel

---------------------------------------------------------------------------
(* Python helpers.                                                         *)

Range(s) == {s[i] : i \in 1..Len(s)}

\* range(lo, hi + 1) filtered by a predicate set, as an ascending list.
RECURSIVE RangeList(_, _, _)
RangeList(lo, hi, excl) ==
    IF lo > hi THEN <<>>
    ELSE IF lo \in excl THEN RangeList(lo + 1, hi, excl)
         ELSE <<lo>> \o RangeList(lo + 1, hi, excl)

Returned(v) == [raised |-> None, value |-> v]
Raised(e) == [raised |-> e, value |-> <<>>]

InjectiveIndexes(k, n) ==
    {f \in [1..k -> 1..n] : \A i, j \in 1..k : i # j => f[i] # f[j]}

\* random.sample(population, k): k distinct positions of the population, in
\* draw order; ValueError unless 0 <= k <= len(population).
random_sample(population, k) ==
    IF k < 0 \/ k > Len(population)
    THEN {Raised("ValueError: Sample larger than population or is negative")}
    ELSE {Returned([i \in 1..k |-> population[f[i]]]) :
             f \in InjectiveIndexes(k, Len(population))}

\* random.choices(population, k=k): k independent positions; an empty
\* population cannot be indexed; a negative k repeats nothing.
random_choices(population, k) ==
    IF k <= 0 THEN {Returned(<<>>)}
    ELSE IF Len(population) = 0 THEN {Raised("IndexError")}
    ELSE {Returned([i \in 1..k |-> population[f[i]]]) :
             f \in [1..k -> 1..Len(population)]}

---------------------------------------------------------------------------
(* RandomGenerator.generate_number                                         *)

\* exclude = exclude or set()
exclude_or_empty(exclude) == IF exclude = {} THEN {} ELSE exclude

\* Mutant: takes the numbers of the range without removing the exclusions.
available_numbers_unfiltered(min_val, max_val, exclude) ==
    RangeList(min_val, max_val, {})

available_numbers(min_val, max_val, exclude) ==
    RangeList(min_val, max_val, exclude_or_empty(exclude))

\* Mutant: counts every exclusion against the range, also one outside it.
generate_number_by_size(min_val, max_val, exclude, count) ==
    LET available == available_numbers(min_val, max_val, exclude)
    IN  IF (max_val - min_val + 1) - Cardinality(exclude) < count
        THEN {Raised("ValueError: Not enough numbers available")}
        ELSE random_sample(available, count)

generate_number(min_val, max_val, exclude, count) ==
    LET available == available_numbers(min_val, max_val, exclude)
    IN  IF Len(available) < count
        THEN {Raised("ValueError: Not enough numbers available")}
        ELSE random_sample(available, count)

---------------------------------------------------------------------------
(* The wheel before any handler ran; kept as is by the engine's calls.     *)

DefaultItems ==
    <<"Option 1", "Option 2", "Option 3", "Option 4", "Option 5", "Option 6">>

WheelInit ==
    /\ wheel_items = DefaultItems
    /\ wheel_angle = 0
    /\ wheel_spinning = FALSE
    /\ wheel_speed = 0
    /\ selected_item = None
    /\ center_button_coords = None
    /\ after_animate = 0
    /\ event = [op |-> "init", ok |-> TRUE, lines |-> <<>>, drawn |-> 0]
    /\ spins = 0

EngineIdle ==
    /\ call = [fn |-> None]
    /\ ret = None
    /\ pc = "idle"

---------------------------------------------------------------------------
(* Specification of generate_number: one call per behaviour.               *)

NumberCalls ==
    [fn : {"generate_number"},
     min_val : (0 - NumRange)..NumRange,
     max_val : (0 - NumRange)..NumRange,
     exclude : SUBSET ((0 - NumRange - 1)..(NumRange + 1)),
     count : (0 - 1)..MaxCount]

InitNumber ==
    /\ WheelInit
    /\ call \in NumberCalls
    /\ ret = None
    /\ pc = "called"

CallNumber ==
    /\ pc = "called"
    /\ call.fn = "generate_number"
    /\ ret' \in generate_number(call.min_val, call.max_val, call.exclude,
                                call.count)
    /\ pc' = "done"
    /\ UNCHANGED <<call, wheel_vars>>

NextNumber == CallNumber

SpecNumber == InitNumber /\ [][NextNumber]_vars

---------------------------------------------------------------------------
(* Claims about generate_number, under SpecNumber.                         *)

NumberDone == pc = "done" /\ call.fn = "generate_number"

\* The integers of {min..max} that are not excluded.
NumberDomain == {x \in call.min_val..call.max_val : x \notin call.exclude}

NumberResultOk ==
    /\ ret.raised = None
    /\ Len(ret.value) = call.count
    /\ \A i, j \in 1..Len(ret.value) : i # j => ret.value[i] # ret.value[j]
    /\ \A i \in 1..Len(ret.value) :
          /\ call.min_val <= ret.value[i]
          /\ ret.value[i] <= call.max_val
          /\ ret.value[i] \notin call.exclude

\* C1 as stated: for min <= max and every count <= |{min..max} \ exclude|
\* the call returns count pairwise distinct values of [min, max], none of
\* them excluded.
C1_AsStated ==
    (NumberDone /\ call.min_val <= call.max_val
                /\ call.count <= Cardinality(NumberDomain))
        => NumberResultOk

\* C1 amended: the same for every count with 0 <= count <= |{min..max} \
\* exclude|; a negative count makes random.sample raise ValueError.
C1_DistinctInRangeNotExcluded ==
    (NumberDone /\ call.min_val <= call.max_val
                /\ 0 <= call.count
                /\ call.count <= Cardinality(NumberDomain))
        => NumberResultOk

C1_Witness ==
    /\ NumberDone
    /\ call.min_val < call.max_val
    /\ call.count = 2
    /\ call.exclude \cap (call.min_val..call.max_val) # {}
    /\ ret.raised = None
    /\ Len(ret.value) = 2

\* C2: when count exceeds the number of integers of {min..max} not in
\* exclude (an empty range included) the call raises the not-enough-numbers
\* error and returns no value; an exclusion outside [min, max] does not
\* count against the range, so a count within the domain is still served.
C2_InsufficientDomain ==
    NumberDone =>
        /\ call.count > Cardinality(NumberDomain) =>
              /\ ret.raised = "ValueError: Not enough numbers available"
              /\ ret.value = <<>>
        /\ (0 <= call.count /\ call.count <= Cardinality(NumberDomain)) =>
              ret.raised = None

C2_Witness ==
    /\ NumberDone
    /\ call.min_val > call.max_val
    /\ call.count = 1
    /\ call.exclude # {}
    /\ ret.raised = "ValueError: Not enough numbers available"
    /\ ret.value = <<>>

---------------------------------------------------------------------------
(* RandomGenerator.generate_from_list                                      *)

\* Mutant: draws with replacement also when unique is asked for.
generate_from_list_with_replacement(items, count, unique) ==
    IF unique
    THEN IF count > Len(items)
         THEN {Raised("ValueError: Cannot select unique items")}
         ELSE random_choices(items, count)
    ELSE random_choices(items, count)

generate_from_list(items, count, unique) ==
    IF unique
    THEN IF count > Len(items)
         THEN {Raised("ValueError: Cannot select unique items")}
         ELSE random_sample(items, count)
    ELSE random_choices(items, count)

RECURSIVE SeqsUpTo(_, _)
SeqsUpTo(S, n) ==
    IF n = 0 THEN {<<>>}
    ELSE LET shorter == SeqsUpTo(S, n - 1)
         IN  shorter \cup {Append(q, x) : q \in shorter, x \in S}

ListLabels == {"a", "b", "c"}

ListCalls ==
    [fn : {"generate_from_list"},
     items : SeqsUpTo(ListLabels, MaxListLen),
     count : (0 - 1)..MaxCount,
     unique : BOOLEAN]

InitList ==
    /\ WheelInit
    /\ call \in ListCalls
    /\ ret = None
    /\ pc = "called"

CallList ==
    /\ pc = "called"
    /\ call.fn = "generate_from_list"
    /\ ret' \in generate_from_list(call.items, call.count, call.unique)
    /\ pc' = "done"
    /\ UNCHANGED <<call, wheel_vars>>

NextList == CallList

SpecList == InitList /\ [][NextList]_vars

---------------------------------------------------------------------------
(* Claims about generate_from_list, under SpecList.                        *)

ListDone == pc = "done" /\ call.fn = "generate_from_list"

\* How often x occurs in the list q.
Occurrences(q, x) == Cardinality({i \in 1..Len(q) : q[i] = x})

IsPermutation(p, q) ==
    /\ Len(p) = Len(q)
    /\ \A x \in Range(p) \cup Range(q) : Occurrences(p, x) = Occurrences(q, x)

---------------------------------------------------------------------------
(* The wheel's geometry.  An angle is a rational number of degrees, given  *)
(* as a numerator over the denominator den; the slice width 360 / n is     *)
(* kept exact by comparing numerators over den * n.                        *)

FullTurn == 360          \* degrees of a full turn
PointerAngle == 90       \* the pointer sits at the top of the canvas
MinWheelItems == 2
MaxWheelItems == 20

\* GUI.draw_wheel: start_angle of slice i, as a numerator over den * n.
start_angle(i, angle, num_items, den) ==
    PointerAngle * den * num_items - angle * num_items - i * FullTurn * den

\* GUI.draw_wheel: extent = angle_per_item, as a numerator over den * n.
arc_extent(num_items, den) == FullTurn * den

\* canvas.create_arc(start=s, extent=e) paints the angles s .. s + e,
\* counter-clockwise from s; whether such an arc holds the angle p.
arc_holds(start, extent, p, turn) == (p - start) % turn <= extent

\* Whether the slice drawn for item i lies under the pointer.
slice_under_pointer(i, angle, num_items, den) ==
    arc_holds(start_angle(i, angle, num_items, den),
              arc_extent(num_items, den),
              PointerAngle * den * num_items,
              FullTurn * den * num_items)

\* GUI.animate_wheel: first_segment_start = 90 - self.wheel_angle
first_segment_start(angle, den) == PointerAngle * den - angle

\* Mutant: takes the normalized start of the first slice for the offset.
offset_from_normalized(angle, den) ==
    first_segment_start(angle, den) % (FullTurn * den)

\* GUI.animate_wheel: offset_from_first = (90 - first_segment_start) % 360
offset_from_first(angle, den) ==
    (PointerAngle * den - first_segment_start(angle, den)) % (FullTurn * den)

\* GUI.animate_wheel: int(offset_from_first / angle_per_item) % num_items,
\* 0-based; offset / (360 / n) is offset * n / 360.
selected_index(angle, num_items, den) ==
    ((offset_from_first(angle, den) * num_items) \div (FullTurn * den))
        % num_items

---------------------------------------------------------------------------
(* Specification of the index resolution alone: one resolution of a wheel  *)
(* of n items resting at the rotation num / den.                           *)

Denominators == {1, 1000}

\* Every whole degree, and with the finer denominator also the angles
\* next to a whole degree on either side.
Rotations(den) ==
    {d * den + e : d \in 0..(FullTurn - 1), e \in {0, 1, den - 1} \cap 0..(den - 1)}

IndexCalls ==
    UNION {[fn : {"selected_index"},
            num_items : MinWheelItems..MaxWheelItems,
            den : {den},
            angle : Rotations(den)] : den \in Denominators}

InitIndex ==
    /\ WheelInit
    /\ call \in IndexCalls
    /\ ret = None
    /\ pc = "called"

CallIndex ==
    /\ pc = "called"
    /\ call.fn = "selected_index"
    /\ ret' = selected_index(call.angle, call.num_items, call.den)
    /\ pc' = "done"
    /\ UNCHANGED <<call, wheel_vars>>

NextIndex == CallIndex

SpecIndex == InitIndex /\ [][NextIndex]_vars

---------------------------------------------------------------------------
(* Claims about the index resolution, under SpecIndex.                     *)

IndexDone == pc = "done" /\ call.fn = "selected_index"

\* C3: the resolved index is the index of the slice drawn under the pointer
\* at 90 degrees, slice i being drawn from 90 - rotation - i * (360 / n)
\* with extent 360 / n, for every n in 2..20 and rotation in [0, 360).
C3_WinnerIsSliceUnderPointer ==
    IndexDone =>
        slice_under_pointer(ret, call.angle, call.num_items, call.den)

\* C4: for every n in 2..20 and rotation in [0, 360) the resolved index is
\* floor((rotation mod 360) / (360 / n)) mod n and lies in [0, n); n = 4
\* gives 0 at rotation 0 and 1 at rotation 91, n = 20 gives 19 at 359.999.
C4_ClosedForm ==
    IndexDone =>
        /\ ret = (((call.angle % (FullTurn * call.den)) * call.num_items)
                     \div (FullTurn * call.den)) % call.num_items
        /\ 0 <= ret /\ ret < call.num_items
        /\ (call.num_items = 4 /\ call.angle = 0) => ret = 0
        /\ (call.num_items = 4 /\ call.angle = 91 * call.den) => ret = 1
        /\ (call.num_items = 20 /\ call.den = 1000 /\ call.angle = 359999)
              => ret = 19

C4_Witness ==
    /\ IndexDone
    /\ call.num_items = 20
    /\ call.den = 1000
    /\ call.angle = 359999
    /\ ret = 19

---------------------------------------------------------------------------
(* The wheel of fortune of the GUI: its state and its event handlers.      *)

MinSpinSpeed == 25           \* random.uniform(25, 35)
MaxSpinSpeed == 35
FrictionPercent == 97        \* self.wheel_speed *= 0.97
StopThresholdTenths == 2     \* if self.wheel_speed > 0.2

Drawn == "drawn"

Turn == FullTurn * Scale

\* The speeds random.uniform(25, 35) is taken to draw: both ends of the
\* range.
SpinSpeeds == {MinSpinSpeed * Scale, MaxSpinSpeed * Scale}

\* self.wheel_speed > 0.2
above_threshold(speed) == speed * 10 > StopThresholdTenths * Scale

\* Mutant: no friction.
friction_none(speed) == speed

\* self.wheel_speed *= 0.97, truncated to the resolution.
friction(speed) == (speed * FrictionPercent) \div 100

\* What the user typed into the item box: a list of lines, each a label
\* or blank.
Blank == ""

LongInput == [i \in 1..(MaxWheelItems + 1) |-> ToString(i)]

WheelInputs == {<<>>, <<Blank, "x">>, <<"x", Blank, "y", "z">>, LongInput}

\* [line.strip() for line in text.split('\n') if line.strip()]
nonblank(line) == line # Blank
parse_items(lines) == SelectSeq(lines, nonblank)

\* Mutant: keeps every item supplied.
truncate_items_none(items) == items

\* items[:20]
truncate_items(items) ==
    IF Len(items) > MaxWheelItems THEN SubSeq(items, 1, MaxWheelItems)
    ELSE items

\* GUI.draw_wheel, as far as the state goes: nothing without items;
\* otherwise the centre button gets its coordinates.  (A handler runs
\* once the wheel tab is shown, when the canvas has its width.)
draw_wheel(items, coords) == IF items = <<>> THEN coords ELSE Drawn

Event(op, ok, lines, drawn) ==
    [op |-> op, ok |-> ok, lines |-> lines, drawn |-> drawn]

\* The wheel's fields as one record, for the handlers that call each other.
WheelState ==
    [items |-> wheel_items, angle |-> wheel_angle,
     spinning |-> wheel_spinning, speed |-> wheel_speed,
     selected |-> selected_item, coords |-> center_button_coords,
     pending |-> after_animate]

SetWheel(w) ==
    /\ wheel_items' = w.items
    /\ wheel_angle' = w.angle
    /\ wheel_spinning' = w.spinning
    /\ wheel_speed' = w.speed
    /\ selected_item' = w.selected
    /\ center_button_coords' = w.coords
    /\ after_animate' = w.pending

\* Mutants of animate_wheel: the friction applied before the rotation; the
\* rotation not wrapped; the last tick scheduling another tick; the last
\* tick leaving the speed as it is.
animate_wheel_friction_first(w) ==
    IF above_threshold(w.speed)
    THEN [w EXCEPT !.angle = (w.angle + friction(w.speed)) % Turn,
                   !.speed = friction(w.speed),
                   !.coords = draw_wheel(w.items, w.coords),
                   !.pending = w.pending + 1]
    ELSE [w EXCEPT !.spinning = FALSE,
                   !.speed = 0,
                   !.selected =
                       w.items[selected_index(w.angle, Len(w.items), Scale) + 1]]

animate_wheel_no_wrap(w) ==
    IF above_threshold(w.speed)
    THEN [w EXCEPT !.angle = w.angle + w.speed,
                   !.speed = friction(w.speed),
                   !.coords = draw_wheel(w.items, w.coords),
                   !.pending = w.pending + 1]
    ELSE [w EXCEPT !.spinning = FALSE,
                   !.speed = 0,
                   !.selected =
                       w.items[selected_index(w.angle, Len(w.items), Scale) + 1]]

animate_wheel_reschedules(w) ==
    IF above_threshold(w.speed)
    THEN [w EXCEPT !.angle = (w.angle + w.speed) % Turn,
                   !.speed = friction(w.speed),
                   !.coords = draw_wheel(w.items, w.coords),
                   !.pending = w.pending + 1]
    ELSE [w EXCEPT !.spinning = FALSE,
                   !.speed = 0,
                   !.selected =
                       w.items[selected_index(w.angle, Len(w.items), Scale) + 1],
                   !.pending = w.pending + 1]

animate_wheel_keeps_speed(w) ==
    IF above_threshold(w.speed)
    THEN [w EXCEPT !.angle = (w.angle + w.speed) % Turn,
                   !.speed = friction(w.speed),
                   !.coords = draw_wheel(w.items, w.coords),
                   !.pending = w.pending + 1]
    ELSE [w EXCEPT !.spinning = FALSE,
                   !.selected =
                       w.items[selected_index(w.angle, Len(w.items), Scale) + 1]]

\* GUI.animate_wheel: one tick.
animate_wheel(w) ==
    IF above_threshold(w.speed)
    THEN [w EXCEPT !.angle = (w.angle + w.speed) % Turn,
                   !.speed = friction(w.speed),
                   !.coords = draw_wheel(w.items, w.coords),
                   !.pending = w.pending + 1]
    ELSE [w EXCEPT !.spinning = FALSE,
                   !.speed = 0,
                   !.selected =
                       w.items[selected_index(w.angle, Len(w.items), Scale) + 1]]

\* GUI.spin_wheel with the speed random.uniform draws; the wheel as it is
\* left, and whether the spin was accepted.
\* Mutant: accepts a spin whether or not the wheel is spinning.
spin_accepted_always(w) == w.items # <<>>

spin_accepted(w) == w.items # <<>> /\ ~w.spinning

spin_wheel(w, speed) ==
    IF ~spin_accepted(w) THEN w
    ELSE animate_wheel([w EXCEPT !.spinning = TRUE, !.speed = speed])

\* GUI.update_wheel_items with the lines of the item box.
update_accepted(lines) == Len(parse_items(lines)) >= MinWheelItems

\* Mutant: clears the rotation and the winner before it validates.
update_wheel_items_clear_first(w, lines) ==
    IF ~update_accepted(lines) THEN [w EXCEPT !.angle = 0, !.selected = None]
    ELSE LET items == truncate_items(parse_items(lines))
         IN  [w EXCEPT !.items = items,
                       !.angle = 0,
                       !.selected = None,
                       !.coords = draw_wheel(items, w.coords)]

update_wheel_items(w, lines) ==
    IF ~update_accepted(lines) THEN w
    ELSE LET items == truncate_items(parse_items(lines))
         IN  [w EXCEPT !.items = items,
                       !.angle = 0,
                       !.selected = None,
                       !.coords = draw_wheel(items, w.coords)]

\* The "Update Items" button.
UpdateWheelItems(lines) ==
    /\ SetWheel(update_wheel_items(WheelState, lines))
    /\ event' = Event("update_wheel_items", update_accepted(lines), lines, 0)
    /\ UNCHANGED <<spins, engine_vars>>

\* The "Spin the Wheel!" button.
SpinWheel(speed) ==
    /\ spin_accepted(WheelState) => spins < MaxSpins
    /\ SetWheel(spin_wheel(WheelState, speed))
    /\ event' = IF spin_accepted(WheelState)
                THEN Event("spin_wheel", TRUE, <<>>, speed)
                ELSE Event("spin_wheel", FALSE, <<>>, 0)
    /\ spins' = IF spin_accepted(WheelState) THEN spins + 1 ELSE spins
    /\ UNCHANGED engine_vars

\* GUI.on_wheel_click: a click on the canvas, inside the centre circle or
\* not.
click_spins(w, inside) ==
    /\ ~(w.coords = None \/ w.spinning)
    /\ inside
    /\ spin_accepted(w)

OnWheelClick(inside, speed) ==
    /\ click_spins(WheelState, inside) => spins < MaxSpins
    /\ SetWheel(IF center_button_coords = None \/ wheel_spinning
                THEN WheelState
                ELSE IF inside THEN spin_wheel(WheelState, speed)
                     ELSE WheelState)
    /\ event' = IF click_spins(WheelState, inside)
                THEN Event("on_wheel_click", TRUE, <<>>, speed)
                ELSE Event("on_wheel_click", FALSE, <<>>, 0)
    /\ spins' = IF click_spins(WheelState, inside) THEN spins + 1 ELSE spins
    /\ UNCHANGED engine_vars

\* A pending animate_wheel callback of root.after(16, ...) runs.
AnimateWheel ==
    /\ after_animate > 0
    /\ SetWheel(animate_wheel([WheelState EXCEPT !.pending = after_animate - 1]))
    /\ event' = Event("animate_wheel", above_threshold(wheel_speed), <<>>, 0)
    /\ UNCHANGED <<spins, engine_vars>>

\* The draw_wheel callback of root.after(100, ...), pending since the
\* construction, runs with the canvas on screen.  Once the wheel is drawn
\* another draw changes nothing here.
DrawWheelCallback ==
    /\ center_button_coords = None
    /\ center_button_coords' = draw_wheel(wheel_items, center_button_coords)
    /\ event' = Event("draw_wheel", TRUE, <<>>, 0)
    /\ UNCHANGED <<wheel_items, wheel_angle, wheel_spinning, wheel_speed,
                   selected_item, after_animate, spins, engine_vars>>

Init == WheelInit /\ EngineIdle

Next ==
    \/ \E lines \in WheelInputs : UpdateWheelItems(lines)
    \/ \E speed \in SpinSpeeds : SpinWheel(speed)
    \/ \E inside \in BOOLEAN, speed \in SpinSpeeds : OnWheelClick(inside, speed)
    \/ AnimateWheel
    \/ DrawWheelCallback

Spec == Init /\ [][Next]_vars

---------------------------------------------------------------------------
(* Claims about the wheel's handlers, under Spec.                          *)

\* The labels supplied by the lines of the item box, counted and listed
\* without the parser.
SuppliedCount(lines) == Cardinality({i \in 1..Len(lines) : lines[i] # Blank})

\* The k-th label supplied.
KthSupplied(lines, k) ==
    lines[CHOOSE j \in 1..Len(lines) :
              /\ lines[j] # Blank
              /\ Cardinality({m \in 1..j : lines[m] # Blank}) = k]

IsPrefixOfSupplied(items, lines) ==
    /\ Len(items) <= SuppliedCount(lines)
    /\ \A i \in 1..Len(items) : items[i] = KthSupplied(lines, i)

ResetDone == event.op = "update_wheel_items"

\* C5: a reset given at least 2 items, from any state of the wheel, leaves
\* the wheel idle: the items are the first 20 labels supplied, the rotation
\* is 0, no winner is recorded, the spinning flag is false and the speed 0.
C5_ResetLeavesIdle ==
    (ResetDone /\ SuppliedCount(event.lines) >= 2) =>
        /\ Len(wheel_items) = IF SuppliedCount(event.lines) > 20 THEN 20
                              ELSE SuppliedCount(event.lines)
        /\ IsPrefixOfSupplied(wheel_items, event.lines)
        /\ wheel_angle = 0
        /\ selected_item = None
        /\ wheel_spinning = FALSE
        /\ wheel_speed = 0

\* C6: a reset given fewer than 2 non-empty items is rejected and changes
\* nothing: items, rotation, speed, spinning flag and winner keep their
\* values.
C6_RejectedResetChangesNothing ==
    /\ [](ResetDone => (event.ok <=> SuppliedCount(event.lines) >= 2))
    /\ [][(event'.op = "update_wheel_items"
             /\ SuppliedCount(event'.lines) < 2) =>
               /\ ~event'.ok
               /\ UNCHANGED <<wheel_items, wheel_angle, wheel_speed,
                              wheel_spinning, selected_item>>]_vars

C6_Witness ==
    /\ ResetDone
    /\ SuppliedCount(event.lines) = 1
    /\ ~event.ok
    /\ wheel_spinning
    /\ wheel_angle > 0
    /\ wheel_items = DefaultItems

\* C7: a spin asked for while the wheel is spinning, by the button or by a
\* click on the centre, is rejected: rotation, speed, items, winner and the
\* spinning flag stay as they are and no speed is drawn.  A spin is accepted
\* only when the wheel is not spinning; it sets the spinning flag and starts
\* from a speed drawn within [25, 35].
C7_SpinOnlyWhenNotSpinning ==
    [][(event'.op \in {"spin_wheel", "on_wheel_click"}) =>
          /\ wheel_spinning =>
                /\ ~event'.ok
                /\ event'.drawn = 0
                /\ UNCHANGED <<wheel_angle, wheel_speed, wheel_items,
                               selected_item, wheel_spinning, after_animate>>
          /\ event'.ok =>
                /\ ~wheel_spinning
                /\ wheel_spinning'
                /\ MinSpinSpeed * Scale <= event'.drawn
                /\ event'.drawn <= MaxSpinSpeed * Scale
                /\ wheel_speed' = (event'.drawn * 97) \div 100
                /\ wheel_angle' = (wheel_angle + event'.drawn) % (360 * Scale)]_vars

C7_Witness ==
    /\ event.op = "on_wheel_click"
    /\ ~event.ok
    /\ center_button_coords # None
    /\ wheel_spinning
    /\ spins = 2
    /\ selected_item # None

\* C8: whenever a spin is accepted or a winner is resolved, and in every
\* other state the wheel reaches, the item list has between 2 and 20
\* entries; so no spin is ever attempted on fewer than 2 items.
C8_ItemCountWithinLimits ==
    /\ 2 <= Len(wheel_items)
    /\ Len(wheel_items) <= 20

C8_Witness ==
    /\ event.op = "animate_wheel"
    /\ ~event.ok
    /\ selected_item # None
    /\ Len(wheel_items) = 20
    /\ spins = 2

---------------------------------------------------------------------------
(* RandomGenerator.generate_custom                                         *)

Digits ==
    {"0", "1", "2", "3", "4", "5", "6", "7", "8", "9"}

AsciiLowercase ==
    {"a", "b", "c", "d", "e", "f", "g", "h", "i", "j", "k", "l", "m",
     "n", "o", "p", "q", "r", "s", "t", "u", "v", "w", "x", "y", "z"}

AsciiUppercase ==
    {"A", "B", "C", "D", "E", "F", "G", "H", "I", "J", "K", "L", "M",
     "N", "O", "P", "Q", "R", "S", "T", "U", "V", "W", "X", "Y", "Z"}

\* string.punctuation; "grave" stands for the grave accent, which a TLA+
\* string cannot hold.
Punctuation ==
    {"!", "\"", "#", "$", "%", "&", "'", "(", ")", "*", "+", ",", "-",
     ".", "/", ":", ";", "<", "=", ">", "?", "@", "[", "\\", "]", "^",
     "_", "grave", "{", "|", "}", "~"}

HexDigits ==
    {"0", "1", "2", "3", "4", "5", "6", "7", "8", "9", "a", "b", "c",
     "d", "e", "f"}

AsciiLetters == AsciiLowercase \cup AsciiUppercase

\* Mutant: the alphanumeric kind walked first.
Kinds_w_first == <<"w", "d", "l", "u", "a", "x", "s">>

\* The keys of replacements, in the order the dict is walked.
Kinds == <<"d", "l", "u", "a", "x", "s", "w">>

replacements(key) ==
    CASE key = "d" -> Digits
      [] key = "l" -> AsciiLowercase
      [] key = "u" -> AsciiUppercase
      [] key = "a" -> AsciiLetters
      [] key = "x" -> HexDigits
      [] key = "s" -> Punctuation
      [] key = "w" -> AsciiLetters \cup Digits

\* pattern = '{' + key + '}'
token(key) == <<"{", key, "}">>

\* result.find(pattern): the first position of the pattern, 0 for none.
find(result, pattern) ==
    LET hits == {i \in 1..(Len(result) - Len(pattern) + 1) :
                    SubSeq(result, i, i + Len(pattern) - 1) = pattern}
    IN  IF hits = {} THEN 0
        ELSE CHOOSE i \in hits : \A j \in hits : i <= j

\* Mutant: result.replace(pattern, ch), every occurrence replaced.
RECURSIVE replace_every(_, _, _)
replace_every(result, pattern, ch) ==
    LET i == find(result, pattern)
    IN  IF i = 0 THEN result
        ELSE SubSeq(result, 1, i - 1) \o <<ch>>
                \o replace_every(SubSeq(result, i + Len(pattern), Len(result)),
                                 pattern, ch)

\* result.replace(pattern, ch, 1), for a pattern that occurs.
replace_first(result, pattern, ch) ==
    LET i == find(result, pattern)
    IN  SubSeq(result, 1, i - 1) \o <<ch>>
            \o SubSeq(result, i + Len(pattern), Len(result))

TemplateChars == {"{", "}", "d", "l", "s", "q"}

\* Longer templates, in which a token occurs twice.
RepeatedTokenTemplates ==
    {<<"{", "d", "}", "q", "{", "d", "}">>,
     <<"{", "l", "}", "{", "l", "}">>}

CustomCalls ==
    [fn : {"generate_custom"},
     template : SeqsUpTo(TemplateChars, MaxTemplateLen)
                    \cup RepeatedTokenTemplates]

\* Before the call starts there is no working string and no kind.
InitCustom ==
    /\ WheelInit
    /\ call \in CustomCalls
    /\ ret = [result |-> <<>>, key |-> 0]
    /\ pc = "called"

\* result = template, and the walk over replacements starts.
CustomStart ==
    /\ pc = "called"
    /\ call.fn = "generate_custom"
    /\ pc' = "expanding"
    /\ ret' = [result |-> call.template, key |-> 1]
    /\ UNCHANGED <<call, wheel_vars>>

\* One turn of the while loop: the first occurrence of the pattern is
\* replaced by random.choice(charset).
CustomReplace ==
    /\ pc = "expanding"
    /\ ret.key <= Len(Kinds)
    /\ find(ret.result, token(Kinds[ret.key])) # 0
    /\ \E ch \in replacements(Kinds[ret.key]) :
          ret' = [ret EXCEPT
                    !.result = replace_first(@, token(Kinds[ret.key]), ch)]
    /\ UNCHANGED <<call, pc, wheel_vars>>

\* The pattern is not in result: the for loop goes to the next key.
CustomNextKey ==
    /\ pc = "expanding"
    /\ ret.key <= Len(Kinds)
    /\ find(ret.result, token(Kinds[ret.key])) = 0
    /\ ret' = [ret EXCEPT !.key = @ + 1]
    /\ UNCHANGED <<call, pc, wheel_vars>>

\* results.append(result), and the list is returned.
CustomReturn ==
    /\ pc = "expanding"
    /\ ret.key > Len(Kinds)
    /\ pc' = "done"
    /\ UNCHANGED <<call, ret, wheel_vars>>

NextCustom == CustomStart \/ CustomReplace \/ CustomNextKey \/ CustomReturn

SpecCustom == InitCustom /\ [][NextCustom]_vars

---------------------------------------------------------------------------
(* Claims about generate_custom, under SpecCustom.                         *)

CustomDone == pc = "done" /\ call.fn = "generate_custom"

RecognizedKinds == {"d", "l", "u", "a", "x", "s", "w"}

StartsWithToken(t) ==
    /\ Len(t) >= 3
    /\ t[1] = "{"
    /\ t[2] \in RecognizedKinds
    /\ t[3] = "}"

\* Whether out is the template t with every recognized token replaced by
\* one character of its kind and every other character kept.
RECURSIVE ExpandsTo(_, _)
ExpandsTo(t, out) ==
    IF t = <<>> THEN out = <<>>
    ELSE IF out = <<>> THEN FALSE
    ELSE IF StartsWithToken(t)
         THEN /\ out[1] \in replacements(t[2])
              /\ ExpandsTo(SubSeq(t, 4, Len(t)), Tail(out))
         ELSE /\ out[1] = t[1]
              /\ ExpandsTo(Tail(t), Tail(out))

\* C10: every output of generate_custom is the template with each
\* occurrence of a recognized token {d} {l} {u} {a} {x} {s} {w} replaced by
\* one character of that kind and every other character, unrecognized
\* brace sequences such as {q} included, left as it is.
C10_OutputIsTemplateExpanded ==
    CustomDone => ExpandsTo(call.template, ret.result)

---------------------------------------------------------------------------
(* RandomGenerator.generate_string                                         *)

\* Largest length and count of a generate_string call, and the largest
\* number of outcomes of one call that is enumerated.
MaxStrLen == 2
MaxStrCount == 2
OutcomeCap == 100

\* The strings of the string module, character by character.
string_digits ==
    <<"0", "1", "2", "3", "4", "5", "6", "7", "8", "9">>

string_ascii_lowercase ==
    <<"a", "b", "c", "d", "e", "f", "g", "h", "i", "j", "k", "l", "m",
      "n", "o", "p", "q", "r", "s", "t", "u", "v", "w", "x", "y", "z">>

string_ascii_uppercase ==
    <<"A", "B", "C", "D", "E", "F", "G", "H", "I", "J", "K", "L", "M",
      "N", "O", "P", "Q", "R", "S", "T", "U", "V", "W", "X", "Y", "Z">>

string_ascii_letters == string_ascii_lowercase \o string_ascii_uppercase

string_punctuation ==
    <<"!", "\"", "#", "$", "%", "&", "'", "(", ")", "*", "+", ",", "-",
      ".", "/", ":", ";", "<", "=", ">", "?", "@", "[", "\\", "]", "^",
      "_", "grave", "{", "|", "}", "~">>

string_hex == string_digits \o <<"a", "b", "c", "d", "e", "f">>

PatternNames ==
    {"alphanumeric", "alpha", "numeric", "lowercase", "uppercase", "hex",
     "symbols", "alphanumeric_symbols"}

\* patterns.get(pattern, string.ascii_letters + string.digits)
patterns_get(pattern) ==
    CASE pattern = "alphanumeric" -> string_ascii_letters \o string_digits
      [] pattern = "alpha" -> string_ascii_letters
      [] pattern = "numeric" -> string_digits
      [] pattern = "lowercase" -> string_ascii_lowercase
      [] pattern = "uppercase" -> string_ascii_uppercase
      [] pattern = "hex" -> string_hex
      [] pattern = "symbols" -> string_punctuation
      [] pattern = "alphanumeric_symbols" ->
            string_ascii_letters \o string_digits \o string_punctuation
      [] OTHER -> string_ascii_letters \o string_digits

keep_all(charset, exclude_chars) == charset

\* ''.join(c for c in charset if c not in exclude_chars), under
\* 'if exclude_chars'.
apply_exclusions(charset, exclude_chars) ==
    IF exclude_chars # <<>>
    THEN LET kept(c) == c \notin Range(exclude_chars)
         IN  SelectSeq(charset, kept)
    ELSE charset

resolved_charset(pattern, exclude_chars) ==
    apply_exclusions(patterns_get(pattern), exclude_chars)

\* The loop over range(count), each turn appending
\* ''.join(random.choices(charset, k=length)).
string_results(charset, length, count) ==
    IF count <= 0 THEN {Returned(<<>>)}
    ELSE LET draws == random_choices(charset, length)
         IN  IF \E d \in draws : d.raised # None
             THEN {Raised(d.raised) : d \in {e \in draws : e.raised # None}}
             ELSE {Returned(r) : r \in [1..count -> {d.value : d \in draws}]}

generate_string_unchecked(length, pattern, exclude_chars, count) ==
    string_results(resolved_charset(pattern, exclude_chars), length, count)

generate_string(length, pattern, exclude_chars, count) ==
    LET charset == resolved_charset(pattern, exclude_chars)
    IN  IF charset = <<>>
        THEN {Raised("ValueError: No characters available after exclusions")}
        ELSE string_results(charset, length, count)

\* Every printable character a pattern can hold, and the same with the
\* characters of keep left out.
AllChars == string_ascii_letters \o string_digits \o string_punctuation

AllBut(keep) ==
    LET dropped(c) == c \notin keep
    IN  SelectSeq(AllChars, dropped)

ProbeChars == {"a", "A", "7", "f", "!"}

\* Exclusion strings: none, short ones (with a character of no pattern and
\* a repeated one), whole classes, and everything but one or two characters.
Exclusions ==
    {<<>>, <<"a">>, <<"A", "0", "~", " ", "A">>,
     string_ascii_lowercase, string_digits, string_hex}
        \cup {AllBut(keep) : keep \in {k \in SUBSET ProbeChars : Cardinality(k) <= 2}}

\* b to the power e, counted no further than OutcomeCap + 1.
RECURSIVE CappedPower(_, _)
CappedPower(b, e) ==
    IF e <= 0 THEN 1
    ELSE LET rest == CappedPower(b, e - 1)
         IN  IF b * rest > OutcomeCap THEN OutcomeCap + 1 ELSE b * rest

\* How many results a call can return: one character out of the charset
\* for each of the length * count places.
outcomes(c) ==
    LET n == Len(resolved_charset(c.pattern, c.exclude_chars))
        places == (IF c.length > 0 THEN c.length ELSE 0)
                    * (IF c.count > 0 THEN c.count ELSE 0)
    IN  IF n = 0 THEN 1 ELSE CappedPower(n, places)

StringCalls ==
    {c \in [fn : {"generate_string"},
            length : (-1)..MaxStrLen,
            pattern : PatternNames \cup {"binary"},
            exclude_chars : Exclusions,
            count : (-1)..MaxStrCount] : outcomes(c) <= OutcomeCap}

InitString ==
    /\ WheelInit
    /\ call \in StringCalls
    /\ ret = None
    /\ pc = "called"

CallString ==
    /\ pc = "called"
    /\ call.fn = "generate_string"
    /\ ret' \in generate_string(call.length, call.pattern,
                                call.exclude_chars, call.count)
    /\ pc' = "done"
    /\ UNCHANGED <<call, wheel_vars>>

NextString == CallString

SpecString == InitString /\ [][NextString]_vars

---------------------------------------------------------------------------
(* Claims about generate_string, under SpecString.                         *)

StringDone == pc = "done" /\ call.fn = "generate_string"

\* The character class the specification gives each pattern name; an
\* unknown name stands for the alphanumeric class.
PatternClass(pattern) ==
    CASE pattern = "alpha" -> AsciiLetters
      [] pattern = "numeric" -> Digits
      [] pattern = "lowercase" -> AsciiLowercase
      [] pattern = "uppercase" -> AsciiUppercase
      [] pattern = "hex" -> HexDigits
      [] pattern = "symbols" -> Punctuation
      [] pattern = "alphanumeric_symbols" ->
            AsciiLetters \cup Digits \cup Punctuation
      [] OTHER -> AsciiLetters \cup Digits

StringContents ==
    \A i \in 1..Len(ret.value) : \A j \in 1..Len(ret.value[i]) :
        /\ ret.value[i][j] \in PatternClass(call.pattern)
        /\ ret.value[i][j] \notin Range(call.exclude_chars)

\* C11 as stated: every successful call returns exactly count strings of
\* exactly length characters, negative counts and lengths included.
C11_AsStated ==
    (StringDone /\ ret.raised = None) =>
        /\ Len(ret.value) = call.count
        /\ \A i \in 1..Len(ret.value) : Len(ret.value[i]) = call.length
        /\ StringContents

\* C11: for every pattern, exclusion, length >= 0 and count >= 0 for which
\* generate_string succeeds, it returns exactly count strings, each of
\* exactly length characters, every character in the pattern's class (the
\* alphanumeric class for an unknown pattern) and none in the exclusion;
\* for a negative count it returns no string and for a negative length
\* empty strings.
C11_StringsOfPatternWithoutExcluded ==
    (StringDone /\ ret.raised = None) =>
        /\ Len(ret.value) = (IF call.count >= 0 THEN call.count ELSE 0)
        /\ \A i \in 1..Len(ret.value) :
              Len(ret.value[i]) = (IF call.length >= 0 THEN call.length ELSE 0)
        /\ StringContents

C11_Witness ==
    /\ StringDone
    /\ ret.raised = None
    /\ call.pattern = "binary"
    /\ call.exclude_chars = AllBut({"a", "7"})
    /\ call.length = 2
    /\ call.count = 2
    /\ ret.value = <<<<"a", "7">>, <<"7", "7">>>>

\* C12: generate_string fails with the empty-domain error, returning no
\* string, exactly when every character of the resolved pattern occurs in
\* the exclusion string, also for count = 0 or length = 0; excluding a
\* lowercase letter does not exclude the uppercase one.
C12_EmptyDomain ==
    StringDone =>
        /\ (ret.raised = "ValueError: No characters available after exclusions")
              <=> (PatternClass(call.pattern) \subseteq Range(call.exclude_chars))
        /\ ret.raised # None => ret.value = <<>>
        /\ ret.raised \in
              {None, "ValueError: No characters available after exclusions"}
        /\ (call.pattern = "uppercase"
                /\ call.exclude_chars = string_ascii_lowercase)
              => ret.raised = None

C12_Witness ==
    /\ StringDone
    /\ ret.raised = "ValueError: No characters available after exclusions"
    /\ call.pattern = "numeric"
    /\ call.exclude_chars = string_hex
    /\ call.count = 0
    /\ call.length = 0

---------------------------------------------------------------------------
(* RandomGenerator._rgb_to_hsl                                             *)

\* How many evenly spread channel values are tried, next to the values
\* around the ends and the middle of the channel range.
ChannelLevels == 85

MaxChannel == 255

Max3(a, b, c) ==
    IF a >= b /\ a >= c THEN a ELSE IF b >= c THEN b ELSE c

Min3(a, b, c) ==
    IF a <= b /\ a <= c THEN a ELSE IF b <= c THEN b ELSE c

\* int(x) for the float x that the code computes for the exact value
\* num / den >= 0.  A value with a fraction is truncated.  A whole value
\* n >= 1 is reached by rounded float steps, which can end just below it
\* and be truncated to n - 1, unless every step is exact in floats.
int_of_float(num, den, exact_in_floats) ==
    IF num % den = 0 /\ num \div den >= 1 /\ ~exact_in_floats
    THEN {(num \div den) - 1, num \div den}
    ELSE {num \div den}

\* int(x) of a value that may be negative: the truncation is toward zero.
int_toward_zero(num, den, exact_in_floats) ==
    IF num >= 0 THEN int_of_float(num, den, exact_in_floats)
    ELSE {0 - n : n \in int_of_float(0 - num, den, exact_in_floats)}

\* l = (max_c + min_c) / 2 and int(l * 100), with max_c = hi / 255 and
\* min_c = lo / 255; the sum and the product are exact when both channels
\* are 0.0 or 1.0.
lightness(hi, lo) ==
    int_of_float(100 * (hi + lo), 2 * MaxChannel,
                 {hi, lo} \subseteq {0, MaxChannel})

\* s = d / (2 - max_c - min_c) if l > 0.5 else d / (max_c + min_c), and
\* int(s * 100); s is exactly 1.0 when the divisor is the same float as d.
saturation(hi, lo) ==
    LET d == hi - lo
        divisor == IF hi + lo > MaxChannel
                   THEN 2 * MaxChannel - hi - lo
                   ELSE hi + lo
    IN  int_of_float(100 * d, divisor, d = divisor)

hue_sixths_unwrapped(r, g, b) ==
    LET hi == Max3(r, g, b)
        d == hi - Min3(r, g, b)
    IN  IF hi = r THEN g - b
        ELSE IF hi = g THEN (b - r) + 2 * d
        ELSE (r - g) + 4 * d

\* The value of h before 'h /= 6', as a multiple of 1 / d.
hue_sixths(r, g, b) ==
    LET hi == Max3(r, g, b)
        d == hi - Min3(r, g, b)
    IN  IF hi = r THEN (g - b) + (IF g < b THEN 6 * d ELSE 0)
        ELSE IF hi = g THEN (b - r) + 2 * d
        ELSE (r - g) + 4 * d

\* h /= 6 and int(h * 360)
hue(r, g, b) ==
    LET d == Max3(r, g, b) - Min3(r, g, b)
    IN  int_toward_zero(hue_sixths(r, g, b) * FullTurn, 6 * d, FALSE)

\* The triples (h, s, l) that _rgb_to_hsl(r, g, b) can return.
rgb_to_hsl(r, g, b) ==
    LET max_c == Max3(r, g, b)
        min_c == Min3(r, g, b)
    IN  IF max_c = min_c
        THEN {<<0, 0, l>> : l \in lightness(max_c, min_c)}
        ELSE {<<hsl[1], hsl[2], hsl[3]>> :
                hsl \in hue(r, g, b) \X saturation(max_c, min_c)
                            \X lightness(max_c, min_c)}

ChannelValues ==
    {(MaxChannel * k) \div ChannelLevels : k \in 0..ChannelLevels}
        \cup {1, 127, 128, MaxChannel - 1}

HslCalls ==
    [fn : {"_rgb_to_hsl"}, r : ChannelValues, g : ChannelValues,
     b : ChannelValues]

InitHsl ==
    /\ WheelInit
    /\ call \in HslCalls
    /\ ret = None
    /\ pc = "called"

CallHsl ==
    /\ pc = "called"
    /\ call.fn = "_rgb_to_hsl"
    /\ ret' \in rgb_to_hsl(call.r, call.g, call.b)
    /\ pc' = "done"
    /\ UNCHANGED <<call, wheel_vars>>

NextHsl == CallHsl

SpecHsl == InitHsl /\ [][NextHsl]_vars

---------------------------------------------------------------------------
(* Claims about _rgb_to_hsl, under SpecHsl.                                *)

HslDone == pc = "done" /\ call.fn = "_rgb_to_hsl"

\* C13: for every RGB triple with channels in 0..255, _rgb_to_hsl returns
\* integers H in [0, 360) and S, L in [0, 100], with H = S = 0 when the
\* three channels are equal; (0,0,0) gives (0,0,0), (255,255,255) gives
\* S = 0 and L = 100, and (255,0,0) gives (0,100,50).
C13_HslInRange ==
    HslDone =>
        /\ ret[1] \in 0..359
        /\ ret[2] \in 0..100
        /\ ret[3] \in 0..100
        /\ (call.r = call.g /\ call.g = call.b) => (ret[1] = 0 /\ ret[2] = 0)
        /\ (call.r = 0 /\ call.g = 0 /\ call.b = 0) => ret = <<0, 0, 0>>
        /\ (call.r = 255 /\ call.g = 255 /\ call.b = 255)
              => (ret[2] = 0 /\ ret[3] = 100)
        /\ (call.r = 255 /\ call.g = 0 /\ call.b = 0) => ret = <<0, 100, 50>>

C13_Witness ==
    /\ HslDone
    /\ call.r = 255
    /\ call.g = 0
    /\ call.b = 1
    /\ ret = <<359, 100, 50>>

---------------------------------------------------------------------------
(* Claims about the wheel's animation, under Spec and FairSpec.            *)

\* The tk event loop runs a callback of root.after once its delay is over:
\* a pending tick is delivered.
FairSpec == Spec /\ WF_vars(AnimateWheel)

\* C14: a tick taken while the wheel spins with velocity v > 0.2 sets the
\* rotation to (rotation + v) mod 360, then the velocity to 0.97 v, keeps
\* the wheel spinning and schedules the next tick; a tick with v <= 0.2
\* leaves the rotation, sets the velocity to 0 and spinning to false,
\* records the winner for the current rotation and items, and schedules no
\* further tick.
C14_TickAdvancesOrResolves ==
    [][(event'.op = "animate_wheel" /\ wheel_spinning) =>
          IF wheel_speed * 10 > 2 * Scale
          THEN /\ wheel_angle' = (wheel_angle + wheel_speed) % (360 * Scale)
               /\ wheel_speed' = (97 * wheel_speed) \div 100
               /\ wheel_spinning'
               /\ after_animate' = 1
               /\ UNCHANGED <<wheel_items, selected_item>>
          ELSE /\ wheel_angle' = wheel_angle
               /\ wheel_speed' = 0
               /\ ~wheel_spinning'
               /\ selected_item' =
                     wheel_items[(((wheel_angle * Len(wheel_items))
                                     \div (360 * Scale)) % Len(wheel_items)) + 1]
               /\ after_animate' = 0
               /\ UNCHANGED wheel_items]_vars

C14_Witness ==
    /\ event.op = "animate_wheel"
    /\ ~event.ok
    /\ ~wheel_spinning
    /\ wheel_speed = 0
    /\ after_animate = 0
    /\ wheel_items = DefaultItems
    /\ selected_item = "Option 4"

\* C15: every accepted spin eventually resolves (the wheel stops with a
\* winner recorded) provided the ticks keep being delivered, whatever speed
\* in [25, 35] was drawn and whatever resets are interleaved: the velocity
\* strictly decreases on every advancing tick.
C15_SpinResolves ==
    /\ wheel_spinning ~> (~wheel_spinning /\ wheel_speed = 0
                             /\ selected_item # None)
    /\ [][(event'.op = "animate_wheel" /\ event'.ok)
             => wheel_speed' < wheel_speed]_vars

C15_Witness ==
    /\ event.op = "animate_wheel"
    /\ ~event.ok
    /\ ~wheel_spinning
    /\ selected_item # None
    /\ wheel_items = <<"x", "y", "z">>
    /\ spins = 1

\* C16: 0 <= rotation < 360 in every reachable state.
C16_RotationInRange ==
    /\ 0 <= wheel_angle
    /\ wheel_angle < 360 * Scale

C16_Witness ==
    /\ event.op = "animate_wheel"
    /\ event.ok
    /\ wheel_angle < wheel_speed

\* C19: between handlers a tick callback is pending exactly when the
\* spinning flag is true, and never more than one is pending, for every
\* interleaving of spin presses, centre clicks, resets and ticks.
C19_OnePendingTickIffSpinning ==
    /\ after_animate \in {0, 1}
    /\ (after_animate = 1) <=> wheel_spinning

C19_Witness ==
    /\ event.op = "update_wheel_items"
    /\ event.ok
    /\ wheel_spinning
    /\ after_animate = 1
    /\ spins = 2

\* C20: between operations spinning is false exactly when the velocity is
\* 0, and while the wheel spins the velocity is strictly positive and at
\* most 35.
C20_SpeedMatchesSpinning ==
    /\ ~wheel_spinning <=> (wheel_speed = 0)
    /\ wheel_spinning => (0 < wheel_speed /\ wheel_speed <= 35 * Scale)

C20_Witness ==
    /\ wheel_spinning
    /\ ~above_threshold(wheel_speed)
    /\ event.op = "animate_wheel"

---------------------------------------------------------------------------
(* More claims about generate_custom, under SpecCustom and FairSpecCustom. *)

\* A call that was started runs on: each turn of the loops is taken.
FairSpecCustom == SpecCustom /\ WF_vars(NextCustom)

\* C17: generate_custom terminates: every find-and-replace step shortens
\* the working string by exactly 2 characters, also when a drawn '{' or
\* '}' forms a new token.
C17_ReplaceShortensByTwo ==
    /\ <>(pc = "done")
    /\ [][(pc = "expanding" /\ pc' = "expanding" /\ ret'.key = ret.key)
             => Len(ret'.result) = Len(ret.result) - 2]_vars

C17_Witness ==
    /\ CustomDone
    /\ call.template = <<"{", "s", "{", "s", "}">>
    /\ Len(ret.result) = 1

\* C18 as stated: no string returned by generate_custom contains any of
\* the seven recognized tokens.
C18_AsStated ==
    CustomDone =>
        \A key \in RecognizedKinds : find(ret.result, token(key)) = 0

\* C18: no string returned by generate_custom contains the token {w}, and
\* when the loop of a kind ends the working string holds no token of that
\* kind; a token of one of the six earlier kinds can remain in the returned
\* string where a character drawn for a later kind completed it.
C18_NoTokenOfFinishedKind ==
    /\ [](CustomDone => find(ret.result, <<"{", "w", "}">>) = 0)
    /\ [][(pc = "expanding" /\ pc' = "expanding" /\ ret'.key # ret.key)
             => /\ ret'.result = ret.result
                /\ find(ret.result, token(Kinds[ret.key])) = 0]_vars

C18_Witness ==
    /\ CustomDone
    /\ call.template = <<"{", "s", "}", "d", "}">>
    /\ ret.result = <<"{", "d", "}">>

---------------------------------------------------------------------------
(* The recorded winner, under Spec.                                        *)

\* The recorded winner is absent or one of the current items.
WinnerAbsentOrCurrent ==
    selected_item = None \/ selected_item \in Range(wheel_items)

\* The tick that stops the wheel takes the winner at a valid position of
\* the items the wheel has then.
ResolutionIndexValid ==
    (event'.op = "animate_wheel" /\ ~event'.ok) =>
        \E i \in 1..Len(wheel_items') :
            /\ i = (((wheel_angle * Len(wheel_items')) \div (360 * Scale))
                        % Len(wheel_items')) + 1
            /\ selected_item' = wheel_items'[i]

\* An accepted reset leaves no winner recorded.
ResetClearsWinner ==
    (event'.op = "update_wheel_items" /\ event'.ok) => selected_item' = None

\* A winner is recorded by the stopping tick only.
WinnerOnlyByResolution ==
    (selected_item' # selected_item /\ selected_item' # None)
        => (event'.op = "animate_wheel" /\ ~event'.ok)

\* When the last handler that ran was an accepted reset, no spin has been
\* accepted since, so the next step leaves the winner absent.
WinnerAbsentAfterReset ==
    (event.op = "update_wheel_items" /\ event.ok) => selected_item' = None

\* C21: in every reachable state the recorded winner is absent or one of
\* the current items, and it is absent from a reset until the next accepted
\* spin has resolved; the index used at a resolution is a valid position of
\* the current items, also when a reset replaced them while the wheel was
\* spinning.
C21_WinnerOfCurrentItems ==
    /\ []WinnerAbsentOrCurrent
    /\ [][ResolutionIndexValid]_vars
    /\ [][ResetClearsWinner]_vars
    /\ [][WinnerOnlyByResolution]_vars
    /\ [][WinnerAbsentAfterReset]_vars

===========================================================================
